---- MODULE Spec2Model ----
(***************************************************************************)
(* Eat-Glish: three camera driven "mouth muncher" components.              *)
(*   "cake" : CakeMuncher, the point variant        (src/App.tsx 39-347)   *)
(*   "mp"   : WordMuncher on MediaPipe FaceMesh     (src/unnamed/part_000) *)
(*   "fa"   : WordMuncher on face-api.js            (src/unnamed/part_001) *)
(* Positions are whole pixels, lip distances are thousandths of the        *)
(* normalised unit, and wall-clock delays are abstracted to "some later    *)
(* step": timers of one delay fire in the order they were set.             *)
(***************************************************************************)
EXTENDS Integers, Sequences, FiniteSets, TLC

VARIABLES
  variant,       \* which component is mounted
  treats,        \* treats.current / wordsRef.current
  score,         \* scoreRef.current
  mouthPos,      \* mouthPos.current / mouthPosRef.current
  isMouthOpen,   \* isMouthOpen.current / isMouthOpenRef.current
  faceDetected,  \* "fa": the faceDetected state
  currentQuiz,   \* index of the currentQuiz state / quizIndexRef.current
  boundQuiz,     \* "mp": index of the currentQuiz captured by the registered onResults
  timers,        \* pending setTimeout callbacks, oldest first
  log,           \* history variable: the treats that left play in the last step
  scope,         \* which input ranges the behaviour draws from, fixed by Init
  now,           \* Date.now() as last read, in ms
  lastCaptureTime, \* lastCaptureTime.current
  requests,      \* advice requests sent and not yet resolved
  isAiThinking,  \* the isAiThinking state
  advice,        \* the displayed advice: message, rationale / explanation, debug error
  attempt,       \* history variable: the last pass of the advice trigger
  torn,          \* the effect cleanup has run (session teardown)
  running,       \* "fa": runningRef.current
  initStep,      \* "fa": where init() stands
  raf,           \* "fa": a requestAnimationFrame(gameLoop) callback is scheduled
  interval,      \* "fa": the setInterval(detectFace, 100) is registered
  loading,       \* "fa": the loading state and the message it shows
  stream,        \* the camera stream: "none", "live" or "stopped"
  particles,     \* particles.current / particlesRef.current, followed in "particles", "fade"
  audio,         \* "mp": isPlayingAudio, pending speakWord calls, playing sources
  detections,    \* "fa": detectFace calls under way, followed in scope "detect"
  reply          \* the AiResponse of the last advice-service call

playVars == <<variant, treats, score, mouthPos, isMouthOpen, faceDetected,
              currentQuiz, boundQuiz, timers, log>>

aiVars == <<now, lastCaptureTime, requests, isAiThinking, advice, attempt>>

lifeVars == <<torn, running, initStep, raf, interval, loading, stream>>

fxVars == <<particles, audio, detections>>

vars == <<playVars, scope, aiVars, lifeVars, fxVars, reply>>

----------------------------------------------------------------------------
(* Bounds of the exploration *)
MaxTreats == 1
MaxScore == 0
MaxTimers == 2
MaxQuiz == 2
MaxRequests == 2
MaxHalves == 5
MaxBursts == 1
MaxCalls == 2
MaxPoints == 1000
MaxPass == 2
MaxDetections == 3
MaxStore == 70
MaxGaps == 1
StartTime == 10000
Latencies == 0..3
Images == {"data:image/jpeg;base64,", "data:image/png;base64,"}

(* Environment values *)
Height == 10
Velocities == {3}
IncorrectDraws == {0}
TypeDraws == {39, 40}
KindDraws == {0}
IdDraws == {2}
NearOffsets == {0 - 1, 0, 1}
LipDists == {45, 46}
LipGaps == {6, 7}
FaceHeight == 100

(* Program constants *)
QUIZ_LIST == <<"Apple", "Banana", "Dog", "Cat", "Car", "Sun", "Book", "Ball">>
MOUTH_OPEN_THRESHOLD == 45
MOUTH_OPEN_THRESHOLD_FA == 60
REWARD == 100
PENALTY == 50

Variants == {"cake", "mp", "fa"}

Max(a, b) == IF a > b THEN a ELSE b

(* Fault: the splice is left out *)
RemoveAtNone(s, i) == s

(* Fault: splice takes out the element below index i *)
RemoveAtBelow(s, i) ==
  LET j == IF i > 1 THEN i - 1 ELSE i
  IN SubSeq(s, 1, j - 1) \o SubSeq(s, j + 1, Len(s))

RemoveAt(s, i) == SubSeq(s, 1, i - 1) \o SubSeq(s, i + 1, Len(s))

----------------------------------------------------------------------------
(* Per-variant constants *)
CaptureRadius(v) == IF v = "cake" THEN 60 ELSE 70

Margin(v) == IF v = "fa" THEN 60 ELSE 50

StartY(v) == IF v = "fa" THEN 0 - 60 ELSE 0 - 50

StartX(v) == CASE v = "cake" -> 50 [] v = "mp" -> 75 [] OTHER -> 100

QuizWord(k) == QUIZ_LIST[k + 1]

----------------------------------------------------------------------------
(* Point variant: category table and weighted draw *)
TREAT_TYPES == <<"cupcake", "cookie", "donut", "icecream", "cake", "cherry">>

WEIGHTS == <<40, 30, 15, 8, 5, 2>>

(* Fault: every category is worth the points of a cupcake *)
TreatPointsFlat(type) == 100

(* TREAT_CONFIG[type].points *)
TreatPoints(type) ==
  CASE type = "cupcake" -> 100 [] type = "cookie" -> 150 [] type = "donut" -> 200
    [] type = "icecream" -> 300 [] type = "cake" -> 500 [] OTHER -> 1000

Multiplier == 1

(* Fault: the comparison admits a draw equal to the cumulative weight *)
RECURSIVE PickTypeInclusive(_, _, _)
PickTypeInclusive(rand, i, sum) ==
  IF i > Len(WEIGHTS) THEN "cupcake"
  ELSE IF rand <= sum + WEIGHTS[i] THEN TREAT_TYPES[i]
  ELSE PickTypeInclusive(rand, i + 1, sum + WEIGHTS[i])

(* The loop of spawnTreat from index i with the running sum *)
RECURSIVE PickType(_, _, _)
PickType(rand, i, sum) ==
  IF i > Len(WEIGHTS) THEN "cupcake"
  ELSE IF rand < sum + WEIGHTS[i] THEN TREAT_TYPES[i]
  ELSE PickType(rand, i + 1, sum + WEIGHTS[i])

(* Math.random().toString(36).substr(2, 9) for a draw of r quarters: 0 is   *)
(* "0", 0.25 is "0.9", 0.5 is "0.i", 0.75 is "0.r"                          *)
ToBase36(r) == <<"0", "0.9", "0.i", "0.r">>[r + 1]

Substr2(str) ==
  CASE str = "0.9" -> "9" [] str = "0.i" -> "i" [] str = "0.r" -> "r" [] OTHER -> ""

NewId(r) == Substr2(ToBase36(r))

(* d = [rand, r, velocity]: the draws of one call *)
spawnTreatCake(d) ==
  LET type == PickType(d.rand, 1, 0) IN
  [id |-> NewId(d.r), x |-> StartX("cake"), y |-> StartY("cake"), type |-> type,
   active |-> TRUE, points |-> TreatPoints(type), velocity |-> d.velocity, scored |-> 0]

----------------------------------------------------------------------------
(* Word variants: the word a spawned treat carries *)
OtherQuizzes(correctWord) == SelectSeq(QUIZ_LIST, LAMBDA w : w # correctWord)

(* Fault: the incorrect word is drawn from the whole list *)
PickWordUnfiltered(correctWord, isCorrect, j) ==
  IF isCorrect THEN correctWord ELSE QUIZ_LIST[j + 1]

PickWord(correctWord, isCorrect, j) ==
  IF isCorrect THEN correctWord ELSE OtherQuizzes(correctWord)[j + 1]

WORD_TYPES == <<"cupcake", "cookie", "donut", "icecream", "cake">>

(* TREAT_EMOJIS, by code point *)
TREAT_EMOJIS(type) ==
  CASE type = "cupcake" -> "U+1F9C1"
    [] type = "cookie" -> "U+1F36A"
    [] type = "donut" -> "U+1F369"
    [] type = "icecream" -> "U+1F366"
    [] type = "cake" -> "U+1F370"
    [] OTHER -> "U+1F352"

(* d = [k, isCorrect, j, r, velocity]: the draws of one call *)
spawnTreat(quiz, d) ==
  [id |-> NewId(d.r), x |-> StartX("mp"), y |-> StartY("mp"), type |-> WORD_TYPES[d.k + 1],
   word |-> PickWord(QuizWord(quiz), d.isCorrect, d.j), isCorrect |-> d.isCorrect,
   active |-> TRUE, velocity |-> d.velocity, scored |-> 0]

spawnWord(quiz, d) ==
  [id |-> NewId(d.r), x |-> StartX("fa"), y |-> StartY("fa"),
   word |-> PickWord(QuizWord(quiz), d.isCorrect, d.j),
   emoji |-> TREAT_EMOJIS(WORD_TYPES[d.k + 1]), isCorrect |-> d.isCorrect,
   velocity |-> d.velocity, scored |-> 0]

----------------------------------------------------------------------------
(* One treat in one pass of the treat loop *)

(* Fault: the treat is left where it is *)
AdvanceStill(t) == t

(* Fault: the treat is moved against its velocity *)
AdvanceUp(t) == [t EXCEPT !.y = @ - t.velocity]

Advance(t) == [t EXCEPT !.y = @ + t.velocity]

(* Fault: a treat is pruned one margin further down *)
PrunedLate(t, v) == t.y > Height + 2 * Margin(v)

Pruned(t, v) == t.y > Height + Margin(v)

Dist2(t, mouth) ==
  (t.x - mouth[1]) * (t.x - mouth[1]) + (t.y - mouth[2]) * (t.y - mouth[2])

(* Fault: proximity alone decides *)
CollidesUngated(open, t, mouth, v) ==
  Dist2(t, mouth) < CaptureRadius(v) * CaptureRadius(v)

(* Fault: the boundary is included *)
CollidesInclusive(open, t, mouth, v) ==
  open /\ Dist2(t, mouth) <= CaptureRadius(v) * CaptureRadius(v)

Collides(open, t, mouth, v) ==
  open /\ Dist2(t, mouth) < CaptureRadius(v) * CaptureRadius(v)

(* Fault: the collision check runs before the prune check *)
OutcomeCollisionFirst(t, open, mouth, v) ==
  IF open /\ Dist2(t, mouth) < CaptureRadius(v) * CaptureRadius(v) THEN "eaten"
  ELSE IF Pruned(t, v) THEN "missed"
  ELSE "kept"

Outcome(t, open, mouth, v) ==
  IF Pruned(t, v) THEN "missed"
  ELSE IF Collides(open, t, mouth, v) THEN "eaten"
  ELSE "kept"

(* Fault: the active flag is left set *)
DeactivateForgotten(t) == t

Deactivate(t) == [t EXCEPT !.active = FALSE]

Reward(s) == s + REWARD

(* Fault: the penalty is not floored *)
PenalizeNoFloor(s) == s - PENALTY

Penalize(s) == Max(0, s - PENALTY)

NextIndex(k) == (k + 1) % Len(QUIZ_LIST)

Ev(t, res, before, after, burst) ==
  [t |-> t, res |-> res, before |-> before, after |-> after, burst |-> burst]

(* The history also keeps whether the detection the pass relied on found a face *)
Seen(out, face) == [k \in 1..Len(out) |-> [face |-> face] @@ out[k]]

(* The history keeps what happened to the treats that left play in the pass *)
Note(out, e) == IF e.res = "kept" THEN out ELSE Append(out, e)

Eaten(t) == [t EXCEPT !.scored = @ + 1]

----------------------------------------------------------------------------
(* The treat loops: index i runs from the last element down to the first    *)
(* over the array as it is at that moment. st = [treats, score, timers, out] *)
RECURSIVE LoopCake(_, _, _, _)
LoopCake(i, st, open, mouth) ==
  IF i = 0 THEN st
  ELSE
    LET t == st.treats[i] IN
    IF ~t.active
    THEN LoopCake(i - 1,
           [st EXCEPT !.treats = RemoveAt(@, i),
                      !.out = Append(@, Ev(t, "evicted", st.score, st.score, 0))],
           open, mouth)
    ELSE
      LET t1 == Advance(t)
          res == Outcome(t1, open, mouth, "cake")
          s1 == IF res = "eaten" THEN st.score + t1.points * Multiplier ELSE st.score
          t2 == CASE res = "missed" -> Deactivate(t1)
                  [] res = "eaten" -> Eaten(Deactivate(t1))
                  [] OTHER -> t1
      IN LoopCake(i - 1,
           [st EXCEPT !.treats[i] = t2,
                      !.score = s1,
                      !.out = Note(@, Ev(t1, res, st.score, s1,
                                           IF res = "eaten" THEN 12 ELSE 0))],
           open, mouth)

RECURSIVE LoopMP(_, _, _, _, _)
LoopMP(i, st, open, mouth, captured) ==
  IF i = 0 THEN st
  ELSE
    LET t == st.treats[i] IN
    IF ~t.active
    THEN LoopMP(i - 1,
           [st EXCEPT !.treats = RemoveAt(@, i),
                      !.out = Append(@, Ev(t, "evicted", st.score, st.score, 0))],
           open, mouth, captured)
    ELSE
      LET t1 == Advance(t)
          res == Outcome(t1, open, mouth, "mp")
          good == res = "eaten" /\ t1.isCorrect
          bad == res = "eaten" /\ ~t1.isCorrect
          s1 == IF good THEN Reward(st.score)
                ELSE IF bad THEN Penalize(st.score) ELSE st.score
          t2 == CASE res = "missed" -> Deactivate(t1)
                  [] res = "eaten" -> Eaten(Deactivate(t1))
                  [] OTHER -> t1
      IN LoopMP(i - 1,
           [st EXCEPT !.treats[i] = t2,
                      !.score = s1,
                      !.timers = IF good THEN Append(@, captured) ELSE @,
                      !.out = Note(@, Ev(t1, res, st.score, s1,
                                 IF good THEN 20 ELSE IF bad THEN 10 ELSE 0))],
           open, mouth, captured)

RECURSIVE LoopFA(_, _, _, _)
LoopFA(i, st, open, mouth) ==
  IF i = 0 THEN st
  ELSE
    LET t1 == Advance(st.treats[i])
        res == Outcome(t1, open, mouth, "fa")
        good == res = "eaten" /\ t1.isCorrect
        bad == res = "eaten" /\ ~t1.isCorrect
        s1 == IF good THEN Reward(st.score)
              ELSE IF bad THEN Penalize(st.score) ELSE st.score
    IN LoopFA(i - 1,
         [st EXCEPT !.treats = IF res = "kept" THEN [@ EXCEPT ![i] = t1]
                               ELSE RemoveAt(@, i),
                    !.score = s1,
                    !.timers = IF good THEN Append(@, "advance") ELSE @,
                    !.out = Note(@, Ev(t1, res, st.score, s1,
                               IF res = "eaten" THEN 15 ELSE 0))],
         open, mouth)

----------------------------------------------------------------------------
(* The advice service (geminiService). A call ends in one of: the request   *)
(* rejects, or it resolves with a response text. Texts stand for: a JSON    *)
(* object with message and detail, the empty object, no text, the JSON      *)
(* value null, and text that is not JSON.                                   *)
UNDEFINED == "undefined"

Texts == {"{message,detail}", "{}", "", "null", "not json"}

Services == {"getStudyBuddyAdvice", "getStrategicHint", "getGourmetAdvice"}

(* The message of the catch block; "teacher is away" stands for the Korean  *)
(* sentence of getStudyBuddyAdvice, and "fighting" below for its default    *)
(* message                                                                  *)
Fallback(fn) ==
  CASE fn = "getStudyBuddyAdvice" -> "teacher is away"
    [] fn = "getStrategicHint" -> "Strategic calculation failed."
    [] OTHER -> "Kitchen is closed."

(* response.text || "{}" *)
OrEmptyObject(text) == IF text = "" THEN "{}" ELSE text

(* JSON.parse: the value, or the SyntaxError it throws *)
JSONparse(text) ==
  CASE text = "{message,detail}" ->
         [threw |-> FALSE, isNull |-> FALSE, message |-> "from model", detail |-> "from model"]
    [] text = "{}" ->
         [threw |-> FALSE, isNull |-> FALSE, message |-> UNDEFINED, detail |-> UNDEFINED]
    [] text = "null" ->
         [threw |-> FALSE, isNull |-> TRUE, message |-> UNDEFINED, detail |-> UNDEFINED]
    [] OTHER ->
         [threw |-> TRUE, isNull |-> FALSE, message |-> "SyntaxError", detail |-> UNDEFINED]

Hint(isNull, message, detail) == [isNull |-> isNull, message |-> message, detail |-> detail]

Debug(image, raw, latency, error) ==
  [screenshotBase64 |-> image, rawResponse |-> raw, latency |-> latency, error |-> error]

AiResponse(raised, hint, debug) == [raised |-> raised, hint |-> hint, debug |-> debug]

(* Fault: the catch block returns the fallback without the error marker *)
CaughtUnmarked(fn, image, raw, latency, message) ==
  AiResponse(FALSE, Hint(FALSE, Fallback(fn), UNDEFINED), Debug(image, raw, latency, UNDEFINED))

(* The catch block: debug.error = error.message, fallback hint *)
Caught(fn, image, raw, latency, message) ==
  AiResponse(FALSE, Hint(FALSE, Fallback(fn), UNDEFINED), Debug(image, raw, latency, message))

(* What the try block returns for a parsed value *)
Returned(fn, image, raw, latency, parsed) ==
  IF fn = "getStudyBuddyAdvice"
  THEN IF parsed.isNull
       THEN Caught(fn, image, raw, latency, "TypeError")
       ELSE AiResponse(FALSE,
              Hint(FALSE,
                   IF parsed.message = UNDEFINED THEN "fighting" ELSE parsed.message,
                   parsed.detail),
              Debug(image, raw, latency, UNDEFINED))
  ELSE AiResponse(FALSE, Hint(parsed.isNull, parsed.message, parsed.detail),
                  Debug(image, raw, latency, UNDEFINED))

(* One call: out = [net, text, latency] is what generateContent does *)
AdviceService(fn, image, out) ==
  IF out.net = "reject"
  THEN Caught(fn, image, "", 0, "network error")
  ELSE LET raw == OrEmptyObject(out.text)
           parsed == JSONparse(raw)
       IN IF parsed.threw
          THEN Caught(fn, image, raw, out.latency, parsed.message)
          ELSE Returned(fn, image, raw, out.latency, parsed)

getStudyBuddyAdvice(image, out) == AdviceService("getStudyBuddyAdvice", image, out)

getStrategicHint(image, out) == AdviceService("getStrategicHint", image, out)

getGourmetAdvice(image, out) == AdviceService("getGourmetAdvice", image, out)

(* A call on record: the function, what generateContent did, the response *)
Called(fn, image, out) ==
  [fn |-> fn, out |-> out,
   res |-> CASE fn = "getStudyBuddyAdvice" -> getStudyBuddyAdvice(image, out)
             [] fn = "getStrategicHint" -> getStrategicHint(image, out)
             [] OTHER -> getGourmetAdvice(image, out)]

NoReply ==
  [fn |-> "none", out |-> [net |-> "none", text |-> "", latency |-> 0],
   res |-> AiResponse(FALSE, Hint(FALSE, UNDEFINED, UNDEFINED),
                      Debug(UNDEFINED, "", 0, UNDEFINED))]

----------------------------------------------------------------------------
(* Inputs of one frame *)
MouthPoints(v) ==
  { <<StartX(v), StartY(v) + vel + CaptureRadius(v) + d>> :
       vel \in Velocities, d \in NearOffsets }

NoFace == [found |-> FALSE]

Faces(v) ==
  {NoFace} \cup [found : {TRUE}, pos : MouthPoints(v), dist : LipDists]

(* "fall": no face, or the lips open or closed at the nearest mouth point *)
Nearest(v) == <<StartX(v), StartY(v) + 3 + CaptureRadius(v) - 1>>

(* What one detectFace finds: nothing, or the lips at pos, gap apart *)
FaFaces(sc) ==
  LET all == [found : {TRUE}, pos : MouthPoints("fa"), gap : LipGaps]
  IN (IF sc = "fade" THEN {} ELSE {[found |-> FALSE]}) \cup
       (IF sc \in {"play", "detect"} THEN all
        ELSE IF sc = "fall" THEN {f \in all : f.pos = Nearest("fa")}
        ELSE IF sc = "store"
        THEN {f \in all : /\ f.pos = Nearest("fa")
                          /\ f.gap * 1000 <= MOUTH_OPEN_THRESHOLD_FA * FaceHeight}
        ELSE IF sc \in {"pass", "particles", "fade"}
        THEN {f \in all : /\ f.pos = Nearest("fa")
                          /\ f.gap * 1000 > MOUTH_OPEN_THRESHOLD_FA * FaceHeight}
        ELSE {f \in all :
                /\ f.gap * 1000 > MOUTH_OPEN_THRESHOLD_FA * FaceHeight
                /\ \E vel \in Velocities :
                     (f.pos[2] - StartY("fa") - vel) * (f.pos[2] - StartY("fa") - vel)
                       < CaptureRadius("fa") * CaptureRadius("fa")})

NoSpawn == [spawn |-> FALSE]

WordSpawns ==
  [spawn : {TRUE}, k : KindDraws, isCorrect : {TRUE}, j : {0}, r : IdDraws,
   velocity : Velocities]
    \cup [spawn : {TRUE}, k : KindDraws, isCorrect : {FALSE}, j : IncorrectDraws,
          r : IdDraws, velocity : Velocities]

CakeSpawns == [spawn : {TRUE}, rand : TypeDraws, r : IdDraws, velocity : Velocities]

(* "fall": every category, the least and a larger velocity of the range     *)
FallSpawns(v) ==
  IF v = "cake"
  THEN [spawn : {TRUE}, rand : {0, 40, 70, 85, 93, 98}, r : IdDraws, velocity : {2, 4}]
  ELSE [spawn : {TRUE}, k : 0..(Len(WORD_TYPES) - 1), isCorrect : {FALSE},
        j : IncorrectDraws, r : IdDraws, velocity : {2, 3}]

(* "pass": a slow and a fast treat, so that a later treat can leave first *)
PassSpawns(v) ==
  IF v = "cake"
  THEN [spawn : {TRUE}, rand : {39}, r : IdDraws, velocity : {2, 3}]
  ELSE [spawn : {TRUE}, k : KindDraws, isCorrect : {FALSE}, j : IncorrectDraws,
        r : IdDraws, velocity : {2, 3}]

(* The least whole velocity a spawner draws: 2 + random * 3 (point),        *)
(* 1.5 + random * 2 (MediaPipe), 2 + random * 2 (face-api)                  *)
MinVelocity(v) == 2

(* "store": every treat at the least velocity, so that the store fills *)
StoreSpawns(v) ==
  IF v = "cake"
  THEN [spawn : {TRUE}, rand : {39}, r : IdDraws, velocity : {MinVelocity(v)}]
  ELSE [spawn : {TRUE}, k : KindDraws, isCorrect : {FALSE}, j : IncorrectDraws,
        r : IdDraws, velocity : {MinVelocity(v)}]

(* The input ranges of a behaviour, by its scope *)
OpenNear(v) ==
  {f \in Faces(v) :
     /\ f.found
     /\ f.dist > MOUTH_OPEN_THRESHOLD
     /\ \E vel \in Velocities :
          (f.pos[2] - StartY(v) - vel) * (f.pos[2] - StartY(v) - vel)
            < CaptureRadius(v) * CaptureRadius(v)}

FacesIn(sc, v) ==
  CASE sc = "play" -> Faces(v)
    [] sc = "summary" ->
         {f \in Faces(v) : f.found => f.dist > MOUTH_OPEN_THRESHOLD /\ f.pos # Nearest(v)}
    [] sc = "fall" -> {f \in Faces(v) : f.found => f.pos = Nearest(v)}
    [] sc \in {"pass", "particles"} -> {NoFace} \cup {f \in OpenNear(v) : f.pos = Nearest(v)}
    [] sc = "store" -> {NoFace} \cup {f \in OpenNear(v) : f.pos = Nearest(v)}
    [] sc = "fade" -> {f \in OpenNear(v) : f.pos = Nearest(v)}
    [] OTHER -> {NoFace} \cup OpenNear(v)

SpawnsIn(sc, v) ==
  CASE sc = "play" -> IF v = "cake" THEN CakeSpawns ELSE WordSpawns
    [] sc \in {"advice", "summary"} ->
         IF v = "cake" THEN {d \in CakeSpawns : d.rand = 39}
         ELSE {d \in WordSpawns : ~d.isCorrect}
    [] sc = "life" -> {d \in WordSpawns : d.isCorrect}
    [] sc = "speech" -> {d \in WordSpawns : d.isCorrect}
    [] sc = "points" -> {d \in FallSpawns("cake") : d.velocity = 4}
    [] sc = "pass" -> PassSpawns(v)
    [] sc = "store" -> StoreSpawns(v)
    [] sc \in {"particles", "fade"} -> IF v = "cake" THEN {d \in CakeSpawns : d.rand = 39} ELSE WordSpawns
    [] OTHER -> FallSpawns(v)

(* The store is explored up to this many treats *)
Capacity(sc) ==
  CASE sc \in {"pass", "summary"} -> MaxPass
    [] sc = "store" -> MaxStore
    [] OTHER -> MaxTreats

(* The frames that passed without a spawn, or with a treat eaten, since the *)
(* oldest treat of the store was spawned                                    *)
Gaps(ts) ==
  IF ts = <<>> THEN 0
  ELSE (ts[1].y - StartY(variant)) \div ts[1].velocity - Len(ts)

(* "store": the exploration lets at most MaxGaps such frames pass before it *)
(* spawns again                                                             *)
Skippable(ts) == scope = "store" => Gaps(ts) < MaxGaps

SpawnChoices(pool) ==
  IF Len(treats) < Capacity(scope)
  THEN (IF Skippable(treats) THEN {NoSpawn} ELSE {}) \cup pool
  ELSE {NoSpawn}

(* Time between two frames: none where time is left out, about half a      *)
(* dispatch interval where the advice trigger is explored                   *)
AdviceInterval(v) == IF v = "cake" THEN 5000 ELSE 7000

Elapsed(sc, v) ==
  IF sc \in {"advice", "summary"}
  THEN {AdviceInterval(v) \div 2, AdviceInterval(v) \div 2 + 1}
  ELSE {0}

WithinHorizon(t) == t <= StartTime + MaxHalves * (AdviceInterval(variant) \div 2 + 1)

Outcomes(sc) ==
  IF sc = "service"
  THEN [net : {"ok"}, text : Texts, latency : Latencies]
         \cup [net : {"reject"}, text : {""}, latency : {0}]
  ELSE [net : {"ok"}, text : {"{message,detail}", "null"}, latency : {0}]
         \cup [net : {"reject"}, text : {""}, latency : {0}]

----------------------------------------------------------------------------
(* The advice trigger at the end of a frame *)
ActiveCount(ts) == Cardinality({k \in 1..Len(ts) : ts[k].active})

(* CakeMuncher: handleAiAnalysis is the one of the render whose effect      *)
(* registered onResults; the effect's dependencies never change, so the     *)
(* isAiThinking it reads is the initial state                               *)
CapturedIsAiThinking == FALSE

NoAttempt == [at |-> 0, fresh |-> FALSE, sent |-> FALSE, active |-> 0, inflight |-> 0]

(* Outside the step that made it, only the time of the last attempt is kept *)
Stale(a) == [NoAttempt EXCEPT !.at = a.at]

(* Fault: a gated-out attempt does not restart the interval *)
DueNotStamped(v, t, send) ==
  IF t - lastCaptureTime > AdviceInterval(v) /\ send THEN t ELSE lastCaptureTime

(* lastCaptureTime after the trigger ran at time t *)
Stamp(v, t, send) ==
  IF t - lastCaptureTime > AdviceInterval(v) THEN t ELSE lastCaptureTime

(* activeTreats.map(t => ({ type: t.type, points: t.points })) *)
RECURSIVE Described(_)
Described(ts) ==
  IF ts = <<>> THEN <<>>
  ELSE <<[type |-> Head(ts).type, points |-> Head(ts).points]>> \o Described(Tail(ts))

(* The treats the request of variant v describes: getGourmetAdvice is given *)
(* [...treats.current], getStudyBuddyAdvice no treats. Followed in scope    *)
(* "summary"                                                                *)
Summary(v, ts) == IF scope = "summary" /\ v = "cake" THEN Described(ts) ELSE <<>>

(* handleAiAnalysis: the early return *)
Gate(ts) == ~(CapturedIsAiThinking \/ ActiveCount(ts) = 0)

(* The trigger of variant v at time t over the store ts left by the loop *)
AiTrigger(v, t, ts) ==
  LET due == t - lastCaptureTime > AdviceInterval(v)
      send == due /\ (IF v = "cake" THEN Gate(ts) ELSE TRUE)
  IN [last |-> Stamp(v, t, send),
      thinking |-> IF send THEN TRUE ELSE isAiThinking,
      requests |-> IF send
                   THEN Append(requests, [sentAt |-> t, summary |-> Summary(v, ts)])
                   ELSE requests,
      attempt |-> IF due
                  THEN [at |-> t, fresh |-> TRUE, sent |-> send,
                        active |-> ActiveCount(ts), inflight |-> Len(requests)]
                  ELSE Stale(attempt)]

(* Particles. life is in thousandths: 1.0 is 1000, the steps 0.02 and      *)
(* 0.025 are 20 and 25. x and y are where the particle was created; the     *)
(* random drift the particle loop adds to them is not followed              *)
FULL_LIFE == 1000

LifeStep(v) == IF v = "fa" THEN 25 ELSE 20

(* createCrumbs / createParticles: count particles pushed at (x, y) *)
(* Fault: the loop runs once more, for (let i = 0; i <= count; i++) *)
RECURSIVE createParticlesInclusive(_, _, _)
createParticlesInclusive(x, y, count) ==
  IF count < 0 THEN <<>>
  ELSE Append(createParticlesInclusive(x, y, count - 1),
              [x |-> x, y |-> y, life |-> FULL_LIFE])

RECURSIVE createParticles(_, _, _)
createParticles(x, y, count) ==
  IF count = 0 THEN <<>>
  ELSE Append(createParticles(x, y, count - 1), [x |-> x, y |-> y, life |-> FULL_LIFE])

(* The particles pushed by the treat loop, in the order of its calls *)
RECURSIVE Pushed(_)
Pushed(out) ==
  IF out = <<>> THEN <<>>
  ELSE createParticles(Head(out).t.x, Head(out).t.y, Head(out).burst) \o Pushed(Tail(out))

(* Fault: a particle whose life has reached exactly 0 is kept *)
DeadBelowZero(p) == p.life < 0

(* if (p.life <= 0) *)
Dead(p) == p.life <= 0

(* p.life -= step, for every particle of the store *)
Faded(ps, v) == [k \in 1..Len(ps) |-> [ps[k] EXCEPT !.life = @ - LifeStep(v)]]

(* The particle loop: every particle fades by one step and the dead ones    *)
(* are spliced out; the loop runs from the last index down, so a splice     *)
(* moves only particles it has already visited                              *)
ParticleLoop(ps, v) == SelectSeq(Faded(ps, v), LAMBDA q : ~Dead(q))

(* The particle store after a frame whose treat loop noted out *)
Drawn(ps, out, v) ==
  IF scope \in {"particles", "fade"} THEN ParticleLoop(ps \o Pushed(out), v) ELSE ps

(* The exploration keeps at most MaxBursts bursts alive at a time *)
WithinBursts(ps) == Cardinality({ps[k].life : k \in 1..Len(ps)}) <= MaxBursts

----------------------------------------------------------------------------
(* Pronunciation (MediaPipe word variant), followed in scope "speech" *)
NoAudio == [playing |-> FALSE, calls |-> 0, sources |-> 0, last |-> "nothing"]

(* playWordPronunciation up to its await of speakWord, once for every       *)
(* correct treat the loop has eaten                                         *)
Pronounced(a, out) ==
  LET n == Cardinality({k \in 1..Len(out) : out[k].res = "eaten" /\ out[k].t.isCorrect})
  IN IF scope = "speech" /\ n > 0
     THEN [a EXCEPT !.playing = TRUE, !.calls = @ + n]
     ELSE a

(* The exploration keeps at most MaxCalls pronunciations under way *)
WithinCalls(a) == a.calls + a.sources <= MaxCalls

(* Face detection (face-api variant) as it runs: a call of detectFace up to *)
(* its await, and its continuation. pending holds the calls under way with  *)
(* the number of their start and what they will find; applied is the start  *)
(* number of the call that last wrote the mouth                             *)
NoDetections == [pending |-> <<>>, started |-> 0, applied |-> 0]

(* The score up to which the exploration lets a frame raise it *)
ScoreCap(sc) ==
  CASE sc = "points" -> MaxPoints
    [] sc \in {"speech", "particles", "fade"} -> REWARD
    [] OTHER -> MaxScore

(* The exploration stops raising the score above the cap, stops adding      *)
(* timers beyond MaxTimers and, where the target is followed, schedules no   *)
(* advance once the target is past item MaxQuiz; every other frame stays    *)
(* enabled                                                                  *)
WithinBounds(r) ==
  /\ r.score > score => score <= ScoreCap(scope)
  /\ Len(r.timers) > Len(timers) =>
       /\ Len(timers) < MaxTimers
       /\ scope \in {"play", "speech", "particles", "fade"} => currentQuiz < MaxQuiz

Start(ts) == [treats |-> ts, score |-> score, timers |-> timers, out |-> <<>>]

----------------------------------------------------------------------------
InitPlay ==
  /\ treats = <<>>
  /\ score = 0
  /\ mouthPos = <<0, 0>>
  /\ isMouthOpen = FALSE
  /\ faceDetected = FALSE
  /\ currentQuiz = 0
  /\ boundQuiz = 0
  /\ timers = <<>>
  /\ log = <<>>

InitFx ==
  /\ particles = <<>>
  /\ audio = NoAudio
  /\ detections = NoDetections

InitAi ==
  /\ now = StartTime
  /\ lastCaptureTime = 0
  /\ requests = <<>>
  /\ isAiThinking = FALSE
  /\ advice = [message |-> "initial", detail |-> UNDEFINED, error |-> UNDEFINED]
  /\ attempt = NoAttempt
  /\ reply = NoReply

(* The component is mounted and, in the face-api variant, init() has run    *)
(* to its end                                                               *)
InitStarted ==
  /\ torn = FALSE
  /\ running = TRUE
  /\ initStep = "started"
  /\ raf = (variant = "fa")
  /\ interval = (variant = "fa")
  /\ loading = [on |-> FALSE, msg |-> "connecting camera"]
  /\ stream = "live"

Init ==
  /\ variant \in Variants
  /\ scope = "play"
  /\ InitPlay
  /\ InitAi
  /\ InitFx
  /\ InitStarted

(* CakeMuncher.onResults: landmarks, spawn, treat loop, AI trigger *)
onResultsCake ==
  /\ variant = "cake"
  /\ ~torn
  /\ \E face \in FacesIn(scope, "cake"),
        sp \in SpawnChoices(SpawnsIn(scope, "cake")),
        dt \in Elapsed(scope, "cake") :
       LET mouth == IF face.found THEN face.pos ELSE mouthPos
           open == IF face.found THEN face.dist > MOUTH_OPEN_THRESHOLD ELSE isMouthOpen
           ts == IF sp.spawn THEN Append(treats, spawnTreatCake(sp)) ELSE treats
           r == LoopCake(Len(ts), Start(ts), open, mouth)
           ai == AiTrigger("cake", now + dt, r.treats)
       IN /\ WithinBounds(r)
          /\ WithinHorizon(now + dt)
          /\ Len(ai.requests) <= MaxRequests
          /\ mouthPos' = mouth
          /\ isMouthOpen' = open
          /\ treats' = r.treats
          /\ score' = r.score
          /\ particles' = Drawn(particles, r.out, "cake")
          /\ WithinBursts(particles')
          /\ log' = Seen(r.out, face.found)
          /\ now' = now + dt
          /\ lastCaptureTime' = ai.last
          /\ isAiThinking' = ai.thinking
          /\ requests' = ai.requests
          /\ attempt' = ai.attempt
  /\ UNCHANGED <<variant, faceDetected, currentQuiz, boundQuiz, timers>>
  /\ UNCHANGED <<scope, advice, lifeVars, audio, detections, reply>>

(* WordMuncher.onResults (MediaPipe): the closure registered by the effect, *)
(* which reads the currentQuiz of the render that registered it             *)
onResults ==
  /\ variant = "mp"
  /\ ~torn
  /\ \E face \in FacesIn(scope, "mp"),
        sp \in SpawnChoices(SpawnsIn(scope, "mp")),
        dt \in Elapsed(scope, "mp") :
       LET mouth == IF face.found THEN face.pos ELSE mouthPos
           open == IF face.found THEN face.dist > MOUTH_OPEN_THRESHOLD ELSE isMouthOpen
           ts == IF sp.spawn THEN Append(treats, spawnTreat(boundQuiz, sp)) ELSE treats
           r == LoopMP(Len(ts), Start(ts), open, mouth, boundQuiz)
           ai == AiTrigger("mp", now + dt, r.treats)
       IN /\ WithinBounds(r)
          /\ WithinHorizon(now + dt)
          /\ Len(ai.requests) <= MaxRequests
          /\ mouthPos' = mouth
          /\ isMouthOpen' = open
          /\ treats' = r.treats
          /\ score' = r.score
          /\ timers' = r.timers
          /\ particles' = Drawn(particles, r.out, "mp")
          /\ WithinBursts(particles')
          /\ audio' = Pronounced(audio, r.out)
          /\ WithinCalls(audio')
          /\ log' = Seen(r.out, face.found)
          /\ now' = now + dt
          /\ lastCaptureTime' = ai.last
          /\ isAiThinking' = ai.thinking
          /\ requests' = ai.requests
          /\ attempt' = ai.attempt
  /\ UNCHANGED <<variant, faceDetected, currentQuiz, boundQuiz>>
  /\ UNCHANGED <<scope, advice, lifeVars, detections, reply>>

(* nextQuiz, run by setTimeout(nextQuiz, 500): the oldest pending timer fires *)
nextQuiz ==
  /\ variant = "mp"
  /\ timers # <<>>
  /\ currentQuiz' = NextIndex(Head(timers))
  /\ treats' = <<>>
  /\ timers' = Tail(timers)
  /\ log' = <<>>
  /\ UNCHANGED <<variant, score, mouthPos, isMouthOpen, faceDetected, boundQuiz>>
  /\ UNCHANGED <<scope, aiVars, lifeVars, fxVars, reply>>

(* The effect with currentQuiz among its dependencies runs again after the  *)
(* render that follows setCurrentQuiz: a new onResults is registered        *)
effectRerun ==
  /\ variant = "mp"
  /\ ~torn
  /\ boundQuiz # currentQuiz
  /\ boundQuiz' = currentQuiz
  /\ log' = <<>>
  /\ UNCHANGED <<variant, treats, score, mouthPos, isMouthOpen, faceDetected,
                 currentQuiz, timers>>
  /\ UNCHANGED <<scope, aiVars, lifeVars, fxVars, reply>>

(* One pass of WordMuncher.gameLoop (face-api): spawn, word loop, and the   *)
(* next requestAnimationFrame                                               *)
GameLoopPass ==
  \E sp \in SpawnChoices(SpawnsIn(scope, "fa")) :
    LET ts == IF sp.spawn THEN Append(treats, spawnWord(currentQuiz, sp)) ELSE treats
        r == LoopFA(Len(ts), Start(ts), isMouthOpen, mouthPos)
    IN /\ WithinBounds(r)
       /\ treats' = r.treats
       /\ score' = r.score
       /\ timers' = r.timers
       /\ particles' = Drawn(particles, r.out, "fa")
       /\ WithinBursts(particles')
       /\ log' = Seen(r.out, faceDetected)
       /\ raf' = TRUE

(* gameLoop as the requestAnimationFrame callback *)
gameLoop ==
  /\ variant = "fa"
  /\ raf
  /\ IF running
     THEN GameLoopPass
     ELSE /\ raf' = FALSE
          /\ log' = <<>>
          /\ UNCHANGED <<treats, score, timers, particles>>
  /\ UNCHANGED <<variant, mouthPos, isMouthOpen, faceDetected, currentQuiz, boundQuiz>>
  /\ UNCHANGED <<scope, aiVars, torn, running, initStep, interval, loading, stream, audio, detections, reply>>

(* detectFace, run by setInterval(detectFace, 100) *)
detectFace ==
  /\ variant = "fa"
  /\ interval
  /\ running
  /\ \E face \in FaFaces(scope) :
       IF face.found
       THEN /\ faceDetected' = TRUE
            /\ mouthPos' = face.pos
            /\ isMouthOpen' = (face.gap * 1000 > MOUTH_OPEN_THRESHOLD_FA * FaceHeight)
       ELSE /\ faceDetected' = FALSE
            /\ UNCHANGED <<mouthPos, isMouthOpen>>
  /\ log' = <<>>
  /\ UNCHANGED <<variant, treats, score, currentQuiz, boundQuiz, timers>>
  /\ UNCHANGED <<scope, aiVars, lifeVars, fxVars, reply>>

(* detectFace as it runs. The interval calls it every 100 ms whether or not *)
(* an earlier call has returned: the call passes its guard, takes the video *)
(* frame of that moment and awaits the detection                            *)
detectStart ==
  /\ variant = "fa"
  /\ interval
  /\ running
  /\ detections.started < MaxDetections
  /\ \E face \in FaFaces(scope) :
       detections' = [detections EXCEPT
                        !.started = @ + 1,
                        !.pending = Append(@, [seq |-> detections.started + 1,
                                               face |-> face])]
  /\ log' = <<>>
  /\ UNCHANGED <<variant, treats, score, mouthPos, isMouthOpen, faceDetected>>
  /\ UNCHANGED <<currentQuiz, boundQuiz, timers, particles, audio>>
  /\ UNCHANGED <<scope, aiVars, lifeVars, reply>>

(* The continuation of detectFace after its await: any of the calls under   *)
(* way may be the next to return; it writes what it found with no look at   *)
(* which call wrote last                                                    *)
detectDone ==
  /\ variant = "fa"
  /\ \E i \in 1..Len(detections.pending) :
       LET d == detections.pending[i] IN
       /\ IF d.face.found
          THEN /\ faceDetected' = TRUE
               /\ mouthPos' = d.face.pos
               /\ isMouthOpen' =
                    (d.face.gap * 1000 > MOUTH_OPEN_THRESHOLD_FA * FaceHeight)
          ELSE /\ faceDetected' = FALSE
               /\ UNCHANGED <<mouthPos, isMouthOpen>>
       /\ detections' = [detections EXCEPT
                          !.pending = RemoveAt(@, i),
                          !.applied = IF d.face.found THEN d.seq ELSE @]
  /\ log' = <<>>
  /\ UNCHANGED <<variant, treats, score, currentQuiz, boundQuiz, timers>>
  /\ UNCHANGED <<particles, audio>>
  /\ UNCHANGED <<scope, aiVars, lifeVars, reply>>

(* The callback of setTimeout(..., 300) in gameLoop *)
quizAdvance ==
  /\ variant = "fa"
  /\ timers # <<>>
  /\ currentQuiz' = NextIndex(currentQuiz)
  /\ boundQuiz' = NextIndex(currentQuiz)
  /\ treats' = <<>>
  /\ timers' = Tail(timers)
  /\ log' = <<>>
  /\ UNCHANGED <<variant, score, mouthPos, isMouthOpen, faceDetected>>
  /\ UNCHANGED <<scope, aiVars, lifeVars, fxVars, reply>>

Next ==
  \/ onResultsCake
  \/ onResults
  \/ nextQuiz
  \/ effectRerun
  \/ gameLoop
  \/ detectFace
  \/ quizAdvance

Spec == Init /\ [][Next]_vars

----------------------------------------------------------------------------
(* The advice reply and the session teardown *)

(* res.hint.rationale || null *)
OrNull(x) == IF x = UNDEFINED THEN "null" ELSE x

(* A pending getGourmetAdvice / getStudyBuddyAdvice promise resolves and    *)
(* its then-callback runs; reading res.hint.message of a null hint throws   *)
(* before any setter is called                                              *)
adviceResolved ==
  /\ variant \in {"cake", "mp"}
  /\ requests # <<>>
  /\ \E i \in 1..Len(requests), out \in Outcomes(scope) :
       LET res == IF variant = "cake"
                  THEN getGourmetAdvice("data:image/jpeg;base64,", out)
                  ELSE getStudyBuddyAdvice("data:image/jpeg;base64,", out)
       IN /\ requests' = RemoveAt(requests, i)
          /\ reply' = [fn |-> IF variant = "cake" THEN "getGourmetAdvice"
                                ELSE "getStudyBuddyAdvice",
                        out |-> out, res |-> res]
          /\ IF res.hint.isNull
             THEN UNCHANGED <<advice, isAiThinking>>
             ELSE /\ advice' = [message |-> res.hint.message,
                               detail |-> OrNull(res.hint.detail),
                               error |-> IF variant = "cake" THEN res.debug.error
                                         ELSE advice.error]
                  /\ isAiThinking' = FALSE
  /\ attempt' = Stale(attempt)
  /\ log' = <<>>
  /\ UNCHANGED <<variant, treats, score, mouthPos, isMouthOpen, faceDetected,
                 currentQuiz, boundQuiz, timers>>
  /\ UNCHANGED <<scope, now, lastCaptureTime, lifeVars, fxVars>>

(* The cleanup returned by the effect, at unmount: camera.stop() and        *)
(* faceMesh.close(), or, in the face-api variant, runningRef = false,       *)
(* cancelAnimationFrame and clearInterval of what is registered by then,    *)
(* and the tracks of video.srcObject stopped if it is set                   *)
teardown ==
  /\ ~torn
  /\ torn' = TRUE
  /\ stream' = (IF stream = "live" THEN "stopped" ELSE stream)
  /\ IF variant = "fa"
     THEN /\ running' = FALSE
          /\ raf' = FALSE
          /\ interval' = FALSE
     ELSE UNCHANGED <<running, raf, interval>>
  /\ attempt' = Stale(attempt)
  /\ log' = <<>>
  /\ UNCHANGED <<variant, treats, score, mouthPos, isMouthOpen, faceDetected,
                 currentQuiz, boundQuiz, timers>>
  /\ UNCHANGED <<scope, now, lastCaptureTime, requests, isAiThinking, advice,
                 initStep, loading, fxVars, reply>>

(* What the awaits of init() can do: the model load and getUserMedia        *)
(* resolve or reject; the wait for the video metadata only resolves         *)
AwaitOutcomes(step) == IF step = "video" THEN {"ok"} ELSE {"ok", "fail"}

(* Fault: the catch block starts init() again *)
CatchRetry(step) == "models"

(* Where init() stands after its catch block *)
Catch(step) == "failed"

(* init() of the face-api variant resumes after one of its awaits: model    *)
(* loading, getUserMedia, video metadata. After the last one it clears the  *)
(* loading state, sets runningRef, runs gameLoop() once and registers the   *)
(* detection interval; a rejected await ends in the catch block, which      *)
(* only sets the loading message                                            *)
initAwait ==
  /\ variant = "fa"
  /\ initStep \in {"models", "camera", "video"}
  /\ \E res \in AwaitOutcomes(initStep) :
       CASE res = "fail" ->
              /\ initStep' = Catch(initStep)
              /\ loading' = [loading EXCEPT !.msg = "init failed"]
              /\ log' = <<>>
              /\ UNCHANGED <<treats, score, timers, running, raf, interval, stream, particles>>
         [] res = "ok" /\ initStep = "models" ->
              /\ initStep' = "camera"
              /\ loading' = [loading EXCEPT !.msg = "connecting camera"]
              /\ log' = <<>>
              /\ UNCHANGED <<treats, score, timers, running, raf, interval, stream, particles>>
         [] res = "ok" /\ initStep = "camera" ->
              /\ initStep' = "video"
              /\ stream' = "live"
              /\ log' = <<>>
              /\ UNCHANGED <<treats, score, timers, running, raf, interval, loading, particles>>
         [] OTHER ->
              /\ initStep' = "started"
              /\ loading' = [loading EXCEPT !.on = FALSE]
              /\ running' = TRUE
              /\ GameLoopPass
              /\ interval' = TRUE
              /\ UNCHANGED stream
  /\ UNCHANGED <<variant, mouthPos, isMouthOpen, faceDetected, currentQuiz, boundQuiz>>
  /\ UNCHANGED <<scope, aiVars, torn, audio, detections, reply>>

InitAdvice ==
  /\ variant \in {"cake", "mp"}
  /\ scope = "advice"
  /\ InitPlay
  /\ InitAi
  /\ InitFx
  /\ InitStarted

NextAdvice ==
  \/ onResultsCake
  \/ onResults
  \/ adviceResolved
  \/ teardown

SpecAdvice == InitAdvice /\ [][NextAdvice]_vars

(* The same with what the platform keeps doing: a pending promise settles   *)
(* and its then-callback runs, and the camera keeps delivering frames       *)
SpecAdviceFair ==
  /\ InitAdvice
  /\ [][NextAdvice]_vars
  /\ WF_vars(adviceResolved)
  /\ WF_vars(onResultsCake)
  /\ WF_vars(onResults)

(* The point variant with several treats in the store, the requests        *)
(* followed with what they describe                                        *)
InitSummary ==
  /\ variant = "cake"
  /\ scope = "summary"
  /\ InitPlay
  /\ InitAi
  /\ InitFx
  /\ InitStarted

SpecSummary == InitSummary /\ [][onResultsCake \/ adviceResolved]_vars

(* The face-api variant from the mount on, init() not yet past its first await *)
InitLife ==
  /\ variant = "fa"
  /\ scope = "life"
  /\ InitPlay
  /\ InitAi
  /\ InitFx
  /\ torn = FALSE
  /\ running = TRUE
  /\ initStep = "models"
  /\ raf = FALSE
  /\ interval = FALSE
  /\ loading = [on |-> TRUE, msg |-> "loading models"]
  /\ stream = "none"

NextLife ==
  \/ initAwait
  \/ gameLoop
  \/ detectFace
  \/ quizAdvance
  \/ teardown

SpecLife == InitLife /\ [][NextLife]_vars

----------------------------------------------------------------------------
(* Pronunciation. What speakWord and the decoding can do: base64 audio that *)
(* decodes, no data (undefined, also after a caught request error), or      *)
(* data on which decodeBase64 / decodeAudioData throws                      *)
SpeakOutcomes == {"audio", "no data", "undecodable"}

(* playWordPronunciation resumes after await speakWord(word) *)
speakResolved ==
  /\ variant = "mp"
  /\ audio.calls > 0
  /\ \E res \in SpeakOutcomes :
       audio' = CASE res = "audio" ->
                       [audio EXCEPT !.calls = @ - 1, !.sources = @ + 1, !.last = res]
                  [] res = "no data" ->
                       [audio EXCEPT !.calls = @ - 1, !.playing = FALSE, !.last = res]
                  [] OTHER ->
                       [audio EXCEPT !.calls = @ - 1, !.last = res]
  /\ log' = <<>>
  /\ UNCHANGED <<variant, treats, score, mouthPos, isMouthOpen, faceDetected,
                 currentQuiz, boundQuiz, timers>>
  /\ UNCHANGED <<scope, aiVars, lifeVars, particles, detections, reply>>

(* source.onended *)
audioEnded ==
  /\ variant = "mp"
  /\ audio.sources > 0
  /\ audio' = [audio EXCEPT !.sources = @ - 1, !.playing = FALSE, !.last = "ended"]
  /\ log' = <<>>
  /\ UNCHANGED <<variant, treats, score, mouthPos, isMouthOpen, faceDetected,
                 currentQuiz, boundQuiz, timers>>
  /\ UNCHANGED <<scope, aiVars, lifeVars, particles, detections, reply>>

InitSpeech ==
  /\ variant = "mp"
  /\ scope = "speech"
  /\ InitPlay
  /\ InitAi
  /\ InitFx
  /\ InitStarted

NextSpeech ==
  \/ onResults
  \/ nextQuiz
  \/ effectRerun
  \/ speakResolved
  \/ audioEnded

SpecSpeech == InitSpeech /\ [][NextSpeech]_vars

----------------------------------------------------------------------------
(* The point variant with every category, the score followed over several   *)
(* consumptions                                                             *)
InitPoints ==
  /\ variant = "cake"
  /\ scope = "points"
  /\ InitPlay
  /\ InitAi
  /\ InitFx
  /\ InitStarted

SpecPoints == InitPoints /\ [][onResultsCake]_vars

----------------------------------------------------------------------------
(* The advice service alone: every function, every outcome *)
callService ==
  /\ \E fn \in Services, image \in Images, out \in Outcomes(scope) :
       reply' = Called(fn, image, out)
  /\ UNCHANGED <<playVars, scope, aiVars, lifeVars, fxVars>>

InitService ==
  /\ variant = "cake"
  /\ scope = "service"
  /\ InitPlay
  /\ InitAi
  /\ InitFx
  /\ InitStarted

SpecService == InitService /\ [][callService]_vars

----------------------------------------------------------------------------
(* The spawners alone: every draw of the coin, of the vocabulary index and  *)
(* of the category, for every target                                        *)
MaxSpawned == 2

AllIdDraws == {1, 2}

AllWordSpawns ==
  [spawn : {TRUE}, k : KindDraws, isCorrect : BOOLEAN, j : 0..(Len(QUIZ_LIST) - 2),
   r : AllIdDraws, velocity : Velocities]

AllCakeSpawns == [spawn : {TRUE}, rand : 0..99, r : IdDraws, velocity : Velocities]

InitSpawn ==
  /\ variant \in {"mp", "fa"}
  /\ scope = "spawn"
  /\ treats = <<>>
  /\ score = 0
  /\ mouthPos = <<0, 0>>
  /\ isMouthOpen = FALSE
  /\ faceDetected = FALSE
  /\ currentQuiz \in 0..(Len(QUIZ_LIST) - 1)
  /\ boundQuiz = currentQuiz
  /\ timers = <<>>
  /\ log = <<>>
  /\ InitAi
  /\ InitFx
  /\ InitStarted

(* One call of the spawner; log keeps the draws of the call *)
SpawnOnly ==
  /\ Len(treats) < MaxSpawned
  /\ \E sp \in (IF variant = "cake" THEN AllCakeSpawns ELSE AllWordSpawns) :
       /\ treats' = Append(treats,
                      CASE variant = "cake" -> spawnTreatCake(sp)
                        [] variant = "mp" -> spawnTreat(boundQuiz, sp)
                        [] OTHER -> spawnWord(currentQuiz, sp))
       /\ log' = <<sp>>
  /\ UNCHANGED <<variant, score, mouthPos, isMouthOpen, faceDetected,
                 currentQuiz, boundQuiz, timers>>
  /\ UNCHANGED <<scope, aiVars, lifeVars, fxVars, reply>>

SpecSpawn == InitSpawn /\ [][SpawnOnly]_vars

(* The point variant's spawner on every whole draw of [0, 100) *)
InitPick ==
  /\ variant = "cake"
  /\ scope = "spawn"
  /\ InitPlay
  /\ InitAi
  /\ InitFx
  /\ InitStarted

SpecPick == InitPick /\ [][SpawnOnly]_vars

----------------------------------------------------------------------------
(* Falling: every category and velocity, any mouth, frames keep arriving *)
InitFall ==
  /\ variant \in Variants
  /\ scope = "fall"
  /\ InitPlay
  /\ InitAi
  /\ InitFx
  /\ InitStarted

NextFall ==
  \/ onResultsCake
  \/ onResults
  \/ gameLoop
  \/ detectFace

SpecFall ==
  /\ InitFall
  /\ [][NextFall]_vars
  /\ WF_vars(onResultsCake)
  /\ WF_vars(onResults)
  /\ WF_vars(gameLoop)

----------------------------------------------------------------------------
(* The physics pass over a store of several treats of different velocities *)
InitPass ==
  /\ variant \in Variants
  /\ scope = "pass"
  /\ InitPlay
  /\ InitAi
  /\ InitFx
  /\ InitStarted

SpecPass == InitPass /\ [][NextFall]_vars

----------------------------------------------------------------------------
(* Detection: the face-api variant with its detections as they overlap *)
InitDetect ==
  /\ variant = "fa"
  /\ scope = "detect"
  /\ InitPlay
  /\ InitAi
  /\ InitFx
  /\ InitStarted

NextDetect ==
  \/ detectStart
  \/ detectDone

SpecDetect == InitDetect /\ [][NextDetect]_vars

----------------------------------------------------------------------------
(* The store as it fills: a spawn in nearly every frame, every treat at the *)
(* least velocity                                                           *)
InitStore ==
  /\ variant \in Variants
  /\ scope = "store"
  /\ InitPlay
  /\ InitAi
  /\ InitFx
  /\ InitStarted

SpecStore == InitStore /\ [][NextFall]_vars

----------------------------------------------------------------------------
(* Particles: any mouth, treats eaten and missed *)
InitParticles ==
  /\ variant \in Variants
  /\ scope = "particles"
  /\ InitPlay
  /\ InitAi
  /\ InitFx
  /\ InitStarted

SpecParticles == InitParticles /\ [][NextFall]_vars

(* Fading: a face with an open mouth in front of the camera, and frames     *)
(* keep arriving while the component is mounted (camera frames for          *)
(* onResults, requestAnimationFrame for gameLoop)                           *)
InitFade ==
  /\ variant \in Variants
  /\ scope = "fade"
  /\ InitPlay
  /\ InitAi
  /\ InitFx
  /\ InitStarted

SpecFade ==
  /\ InitFade
  /\ [][NextFall]_vars
  /\ WF_vars(onResultsCake)
  /\ WF_vars(onResults)
  /\ WF_vars(gameLoop)

----------------------------------------------------------------------------
(* Reading the history *)
Events(l) == {l[k] : k \in 1..Len(l)}

EatenIn(l) == {e \in Events(l) : e.res = "eaten"}

Stored(ts) == {ts[k] : k \in 1..Len(ts)}

InPlay(ts) == {t \in Stored(ts) : variant = "fa" \/ t.active}

(* A step is a pass of the treat loop when it took no timer off the queue   *)
(* and changed the store or took a treat out of play                        *)
IsTick == Len(timers') >= Len(timers) /\ (treats' # treats \/ log' # <<>>)

TimerFired == Len(timers') < Len(timers)

----------------------------------------------------------------------------
(* C1: a treat is scored at most once. Every treat counts the times it was  *)
(* scored: no consumption is of a treat that was scored before, and a treat *)
(* that stays in the store after being scored is inactive.                  *)
TreatScoredAtMostOnce ==
  /\ \A e \in EatenIn(log) : e.t.scored = 0
  /\ \A t \in Stored(treats) :
       /\ t.scored <= 1
       /\ t.scored = 1 => (variant # "fa" /\ ~t.active)

(* An eaten treat was taken out of the store by the next pass, untested *)
ScoredTreatEvicted ==
  \E e \in Events(log) : e.res = "evicted" /\ e.t.scored = 1

(* C2: the score is never negative; the score falls only when an incorrect  *)
(* word is eaten, and then to max(0, previous - 50).                        *)
ScoreNeverNegative ==
  [][/\ score' >= 0
     /\ score' < score =>
          \E e \in EatenIn(log') : variant # "cake" /\ ~e.t.isCorrect
     /\ \A e \in Events(log') :
          /\ e.after >= e.before \/ (e.res = "eaten" /\ variant # "cake" /\ ~e.t.isCorrect)
          /\ (e.res = "eaten" /\ variant # "cake" /\ ~e.t.isCorrect) =>
               e.after = (IF e.before >= 50 THEN e.before - 50 ELSE 0)]_vars

(* A penalty was applied to a score below 50 *)
PenaltyFloored ==
  \E e \in EatenIn(log) :
    variant # "cake" /\ ~e.t.isCorrect /\ e.before < 50 /\ score = 0

(* C3: in a pass with the mouth-open flag false nothing is consumed and the *)
(* score, the target and the pending advances are unchanged, whatever the   *)
(* distances.                                                               *)
ClosedMouthEatsNothing ==
  [][(IsTick /\ ~isMouthOpen') =>
       /\ EatenIn(log') = {}
       /\ score' = score
       /\ currentQuiz' = currentQuiz
       /\ timers' = timers]_vars

(* Mouth closed and a treat 10 px or less from the mouth after the pass *)
ClosedMouthNearTreat ==
  /\ variant = "mp"
  /\ ~isMouthOpen
  /\ \E t \in InPlay(treats) : t.y > 0 /\ Dist2(t, mouthPos) <= 10 * 10

(* C4: with the mouth open, a treat in view after its move is consumed      *)
(* exactly when its distance to the mouth is below 70 px (60 px in the      *)
(* point variant): squared distance below 4900 (3600).                      *)
ClaimedRadius2 == IF variant = "cake" THEN 60 * 60 ELSE 70 * 70

ConsumedIffWithinRadius ==
  [][IsTick =>
       /\ \A e \in EatenIn(log') :
            isMouthOpen' /\ Dist2(e.t, mouthPos') < ClaimedRadius2
       /\ \A t \in InPlay(treats') :
            ~(isMouthOpen' /\ Dist2(t, mouthPos') < ClaimedRadius2)]_vars

(* A word treat eaten at distance 69 *)
EatenAtDistance69 ==
  /\ variant = "mp"
  /\ isMouthOpen
  /\ \E e \in EatenIn(log) : Dist2(e.t, mouthPos) = 69 * 69

(* C5: a treat whose position after the move is beyond the viewport height  *)
(* plus 50 px (60 px in the face-api variant) leaves play as missed, with   *)
(* no score change, no particle and no advance, also with the mouth open    *)
(* and the treat within the capture radius.                                 *)
ClaimedMargin == IF variant = "fa" THEN 60 ELSE 50

MissedTreatScoresNothing ==
  [][IsTick =>
       /\ \A e \in Events(log') :
            (e.res # "evicted" /\ e.t.y > Height + ClaimedMargin) =>
              (e.res = "missed" /\ e.after = e.before /\ e.burst = 0)
       /\ \A t \in InPlay(treats') : t.y <= Height + ClaimedMargin
       /\ EatenIn(log') = {} =>
            (score' = score /\ timers' = timers /\ currentQuiz' = currentQuiz)]_vars

(* A treat was missed in a pass with the mouth open and within the radius *)
MissedWithinOpenMouth ==
  /\ variant = "mp"
  /\ isMouthOpen
  /\ \E e \in Events(log) :
       e.res = "missed" /\ Dist2(e.t, mouthPos) < ClaimedRadius2

(* C6: after a detection that finds no face nothing is consumed until a     *)
(* detection finds a face with an open mouth: every consumption happens in  *)
(* a pass whose latest detection found a face.                              *)
NoFaceMeansNotOpen ==
  \A e \in EatenIn(log) : e.face

(* C7: the target changes only when a pending advance runs, always to the   *)
(* next of the 8 items with wrap-around, and an advance is scheduled only   *)
(* by consuming a treat that carries the word of the target.                *)
TargetAdvancesOnlyOnCorrectWord ==
  [][/\ currentQuiz' # currentQuiz =>
          (TimerFired /\ currentQuiz' = (currentQuiz + 1) % 8)
     /\ Len(timers') > Len(timers) =>
          /\ IsTick
          /\ Len(timers') - Len(timers) = Cardinality(EatenIn(log'))
          /\ \A e \in EatenIn(log') : e.t.word = QUIZ_LIST[currentQuiz + 1]]_vars

(* C8: right after the target changes the store is empty, and no treat      *)
(* spawned as the correct word of an earlier target is in the store.        *)
AdvanceLeavesNoStaleTreat ==
  [][/\ currentQuiz' # currentQuiz => treats' = <<>>
     /\ variant # "cake" =>
          \A t \in Stored(treats') :
            t.isCorrect => t.word = QUIZ_LIST[currentQuiz' + 1]]_vars

(* C9: every consumption of a correct treat adds 100 and yields one advance *)
(* of the target: each delayed callback, when it runs, moves the target to  *)
(* the next item.                                                           *)
OneAdvancePerCorrectTreat ==
  [][/\ TimerFired => currentQuiz' = (currentQuiz + 1) % 8
     /\ (IsTick /\ variant # "cake") =>
          /\ \A e \in EatenIn(log') : e.t.isCorrect => e.after = e.before + 100
          /\ Len(timers') - Len(timers) =
               Cardinality({e \in EatenIn(log') : e.t.isCorrect})]_vars

NoDispatchWithoutActiveTreat ==
  (attempt.fresh /\ attempt.sent) => attempt.active > 0

(* C12: at most one advice request is in flight at any moment.              *)
AtMostOneRequestInFlight ==
  Len(requests) <= 1

(* C13: two consecutive dispatch attempts are more than the dispatch        *)
(* interval apart (5000 ms in the point variant, 7000 ms in the MediaPipe   *)
(* word variant), whether the earlier one sent a request or was gated out.  *)
ClaimedInterval == IF variant = "cake" THEN 5000 ELSE 7000

AttemptsMoreThanIntervalApart ==
  [][(attempt'.fresh /\ attempt.at # 0) =>
       attempt'.at - attempt.at > ClaimedInterval]_vars

(* A second attempt was made after one that was gated out *)
AttemptAfterGatedOut ==
  /\ variant = "cake"
  /\ attempt.fresh
  /\ attempt.at > StartTime + ClaimedInterval
  /\ requests = <<>>
  /\ ~isAiThinking

(* C14: every call of getStudyBuddyAdvice, getGourmetAdvice and             *)
(* getStrategicHint resolves with a result and never raises to its caller;  *)
(* when the request fails or the text does not parse, the result carries    *)
(* the fixed fallback message and debug.error is set; when the text parses  *)
(* to an object, debug.error is absent.                                     *)
CallFailed ==
  \/ reply.out.net = "reject"
  \/ JSONparse(OrEmptyObject(reply.out.text)).threw

CallSucceeded ==
  /\ reply.out.net = "ok"
  /\ ~JSONparse(OrEmptyObject(reply.out.text)).threw
  /\ ~JSONparse(OrEmptyObject(reply.out.text)).isNull

ServiceNeverRaisesAndMarksFailure ==
  reply.fn \in Services =>
    /\ ~reply.res.raised
    /\ CallFailed =>
         /\ ~reply.res.hint.isNull
         /\ reply.res.hint.message = Fallback(reply.fn)
         /\ reply.res.debug.error # UNDEFINED
    /\ CallSucceeded => reply.res.debug.error = UNDEFINED

(* A call whose response text was not JSON came back with the fallback *)
UnparseableTextAnswered ==
  /\ reply.fn = "getGourmetAdvice"
  /\ reply.out.net = "ok"
  /\ reply.out.text = "not json"
  /\ reply.res.hint.message = "Kitchen is closed."
  /\ reply.res.debug.error = "SyntaxError"

(* C15: an advice request that resolves after the teardown is discarded:    *)
(* once the session is torn down, no step changes the displayed hint, its   *)
(* rationale or explanation, the debug info or the AI-thinking flag.        *)
ReplyAfterTeardownDiscarded ==
  [][torn => (advice' = advice /\ isAiThinking' = isAiThinking)]_vars

(* C16: after the teardown no periodic or delayed callback runs: no step    *)
(* changes the treats, the score, the quiz index or the mouth state once    *)
(* the session is torn down, also when the teardown came while init() was   *)
(* awaiting or while a quiz-advance timeout was pending.                    *)
NoCallbackAfterTeardown ==
  [][torn => UNCHANGED <<treats, score, currentQuiz, mouthPos, isMouthOpen>>]_vars

(* C17: no two treats in the store share an identifier.                     *)
TreatIdsUnique ==
  \A i, j \in 1..Len(treats) : i # j => treats[i].id # treats[j].id

(* C18: in the point variant the category of a spawned treat is the first   *)
(* one, in the order cupcake, cookie, donut, icecream, cake, cherry with    *)
(* weights 40, 30, 15, 8, 5, 2, whose cumulative weight strictly exceeds    *)
(* the draw r: r < 40 cupcake, 40 <= r < 70 cookie, 70 <= r < 85 donut,     *)
(* 85 <= r < 93 icecream, 93 <= r < 98 cake, 98 <= r < 100 cherry; every    *)
(* draw selects exactly one category.                                       *)
ClaimedOrder == <<"cupcake", "cookie", "donut", "icecream", "cake", "cherry">>

ClaimedCumulative == <<40, 70, 85, 93, 98, 100>>

FirstExceeding(r) ==
  ClaimedOrder[CHOOSE i \in 1..6 :
                 /\ ClaimedCumulative[i] > r
                 /\ \A k \in 1..(i - 1) : ClaimedCumulative[k] <= r]

ClaimedRange(r) ==
  CASE r < 40 -> "cupcake"
    [] 40 <= r /\ r < 70 -> "cookie"
    [] 70 <= r /\ r < 85 -> "donut"
    [] 85 <= r /\ r < 93 -> "icecream"
    [] 93 <= r /\ r < 98 -> "cake"
    [] 98 <= r /\ r < 100 -> "cherry"

CategoryIsFirstExceedingDraw ==
  (variant = "cake" /\ scope = "spawn" /\ log # <<>>) =>
    /\ treats[Len(treats)].type = FirstExceeding(log[1].rand)
    /\ treats[Len(treats)].type = ClaimedRange(log[1].rand)
    /\ Cardinality({i \in 1..6 : ClaimedOrder[i] = treats[Len(treats)].type}) = 1

(* A draw on a boundary: r = 40 made a cookie *)
CookieAtForty ==
  /\ variant = "cake"
  /\ scope = "spawn"
  /\ log # <<>>
  /\ log[1].rand = 40
  /\ treats[Len(treats)].type = "cookie"

(* C19: every treat in the store has a strictly positive velocity and a     *)
(* category among cupcake, cookie, donut, icecream, cake, cherry (in the    *)
(* face-api variant, the emoji of one of them); and in every frame each     *)
(* treat in play moves strictly down: it is found after the frame, in the   *)
(* store or among the treats the frame took out of play, with a larger y.   *)
Categories == {"cupcake", "cookie", "donut", "icecream", "cake", "cherry"}

WellFormed(t) ==
  /\ t.velocity > 0
  /\ IF variant = "fa"
     THEN \E c \in Categories : t.emoji = TREAT_EMOJIS(c)
     ELSE t.type \in Categories

Frame == onResultsCake \/ onResults \/ gameLoop

After == Stored(treats') \cup {e.t : e \in Events(log')}

SameTreat(t, u) ==
  /\ u.id = t.id
  /\ u.x = t.x
  /\ u.velocity = t.velocity
  /\ IF variant = "fa" THEN u.emoji = t.emoji ELSE u.type = t.type

TreatsWellFormedAndFalling ==
  /\ [](\A t \in Stored(treats) : WellFormed(t))
  /\ [][Frame => \A t \in InPlay(treats) :
                   \E u \in After : SameTreat(t, u) /\ u.y > t.y]_vars

(* A cherry of the point variant, still active after more than one frame *)
CherryFalling ==
  /\ scope = "fall"
  /\ variant = "cake"
  /\ \E t \in Stored(treats) :
       /\ t.type = "cherry"
       /\ t.active
       /\ t.velocity = 4
       /\ t.y >= StartY("cake") + 2 * t.velocity

(* C20: if from some point on no treat is spawned, the store becomes empty  *)
(* after finitely many frames, whatever the mouth does: either spawns keep  *)
(* occurring for ever, or the store is empty again and again.               *)
Fresh(t) == t.y = StartY(variant) + t.velocity

(* A step that spawned: a treat that has moved once is in play after it    *)
(* (detectFace of the face-api variant leaves the store as it is and takes  *)
(* nothing out of play), or left play in it                                 *)
SpawnStep ==
  \/ /\ \E t \in InPlay(treats') : Fresh(t)
     /\ treats' # treats \/ log' # <<>>
  \/ \E e \in Events(log') : e.res # "evicted" /\ Fresh(e.t)

StoreDrains ==
  ([]<><<SpawnStep>>_vars) \/ ([]<>(treats = <<>>))

(* A treat was missed with the mouth open and is gone from the store *)
DrainedWithOpenMouth ==
  /\ scope = "fall"
  /\ treats = <<>>
  /\ isMouthOpen
  /\ \E e \in Events(log) :
       \/ variant = "fa" /\ e.res = "missed"
       \/ e.res = "evicted" /\ e.t.scored = 0

(* C21: the treat store and the score change only inside a simulation       *)
(* tick: a step that adds, removes or clears treats or changes the score    *)
(* is a frame of onResults or gameLoop, never a timer callback, a detector  *)
(* callback or an asynchronous completion.                                  *)
StoreAndScoreChangeOnlyInTick ==
  [][(treats' # treats \/ score' # score) => Frame]_vars

(* C22: in the face-api variant, when the model load or the camera          *)
(* acquisition fails, the session stays in the loading state with the       *)
(* failure message, init() is not run again, and neither the game loop nor  *)
(* the detection interval is started: no treat is spawned and the score     *)
(* stays 0.                                                                 *)
FailedInitStaysBlocked ==
  /\ [](loading.msg = "init failed" =>
          /\ loading.on
          /\ ~raf
          /\ ~interval
          /\ treats = <<>>
          /\ score = 0)
  /\ [][loading.msg = "init failed" =>
          (initStep' = initStep /\ loading' = loading)]_vars

(* init() failed and the component was torn down afterwards *)
InitFailedThenTornDown ==
  /\ variant = "fa"
  /\ initStep = "failed"
  /\ loading = [on |-> TRUE, msg |-> "init failed"]
  /\ torn

(* C28: every camera stream that was acquired is released by the teardown:  *)
(* once the teardown has run and init() is no longer pending, no stream is  *)
(* live, also when the teardown ran before getUserMedia resolved.           *)
NoStreamLiveAfterTeardown ==
  (torn /\ initStep \in {"started", "failed"}) => stream # "live"

(* C23: a pronunciation failure is harmless: when the call returns no audio *)
(* or audio that cannot be decoded, no playback starts and the score, the   *)
(* pending quiz advance and the treats are left as they are; and the        *)
(* playing flag returns to false: it is false whenever no call is pending   *)
(* and no source is playing.                                                *)
PronunciationFailureHarmless ==
  /\ []((audio.calls = 0 /\ audio.sources = 0) => ~audio.playing)
  /\ [][(audio'.calls < audio.calls /\ audio'.last \in {"no data", "undecodable"}) =>
          /\ audio'.sources = audio.sources
          /\ UNCHANGED <<score, timers, treats>>]_vars

(* C24: in the point variant each consumption raises the score by exactly   *)
(* the points of the consumed treat's category (cupcake 100, cookie 150,    *)
(* donut 200, icecream 300, cake 500, cherry 1000) times the multiplier,    *)
(* and no step lowers the score.                                            *)
ClaimedPoints(type) ==
  CASE type = "cupcake" -> 100
    [] type = "cookie" -> 150
    [] type = "donut" -> 200
    [] type = "icecream" -> 300
    [] type = "cake" -> 500
    [] type = "cherry" -> 1000

ConsumptionAddsCategoryPoints ==
  [][variant = "cake" =>
       /\ score' >= score
       /\ \A e \in EatenIn(log') :
            e.after = e.before + ClaimedPoints(e.t.type) * Multiplier
       /\ (EatenIn(log') = {}) => score' = score
       /\ (EatenIn(log') # {}) =>
            /\ \E e \in EatenIn(log') : e.before = score
            /\ \E e \in EatenIn(log') : e.after = score']_vars

(* A cherry eaten on top of points already made *)
CherryOnTopOfPoints ==
  /\ variant = "cake"
  /\ scope = "points"
  /\ \E e \in EatenIn(log) :
       /\ e.t.type = "cherry"
       /\ e.before > 0
       /\ score = e.before + 1000

(* C25: within one tick every treat that is in play when the pass starts    *)
(* is advanced by exactly its velocity, exactly once, also when other       *)
(* treats are removed in the same pass: the treats found after the pass,    *)
(* in the store or among those the pass took out, are the treats of before  *)
(* each moved down once, and at most one fresh treat.                       *)
Plain(t) ==
  IF variant = "fa" THEN [t EXCEPT !.scored = 0]
  ELSE [t EXCEPT !.scored = 0, !.active = TRUE]

MovedOnce(t) == [Plain(t) EXCEPT !.y = t.y + t.velocity]

StartOfPass == {k \in 1..Len(treats) : variant = "fa" \/ treats[k].active}

(* What the face-api pass took out of the store is in the history *)
TakenOut == {k \in 1..Len(log') : variant = "fa" /\ log'[k].res # "evicted"}

CountStart(x) == Cardinality({k \in StartOfPass : MovedOnce(treats[k]) = x})

CountEnd(x) ==
  Cardinality({k \in 1..Len(treats') : Plain(treats'[k]) = x})
    + Cardinality({k \in TakenOut : Plain(log'[k].t) = x})

EveryTreatAdvancedOnce ==
  [][Frame /\ ~(variant = "fa" /\ ~running) =>
       /\ \A k \in StartOfPass :
            CountEnd(MovedOnce(treats[k])) >= CountStart(MovedOnce(treats[k]))
       /\ \A k \in 1..Len(treats') :
            CountStart(Plain(treats'[k])) > 0 \/ Fresh(treats'[k])
       /\ \A k \in TakenOut :
            CountStart(Plain(log'[k].t)) > 0 \/ Fresh(log'[k].t)
       /\ Len(treats') + Cardinality(TakenOut) <= Cardinality(StartOfPass) + 1]_vars

(* The face-api pass took out the later, faster treat and kept the earlier, *)
(* slower one, which moved on                                               *)
LaterTreatRemovedEarlierKept ==
  /\ scope = "pass"
  /\ variant = "fa"
  /\ \E e \in Events(log), u \in Stored(treats) :
       /\ e.res = "missed"
       /\ e.t.velocity = 3
       /\ u.velocity = 2
       /\ (u.y - StartY("fa")) * 3 > (e.t.y - StartY("fa")) * 2

(* C26: every consumption adds exactly a fixed number of particles, with    *)
(* full life, at the position of the consumed treat: 12 in the point        *)
(* variant, 20 for a correct and 10 for an incorrect word in the MediaPipe  *)
(* variant, 15 in the face-api variant; a missed treat adds none. After the *)
(* frame the new particles are those one step below full life, the particle *)
(* loop of the same tick having run once over them.                         *)
ClaimedBurst(e) ==
  IF e.res # "eaten" THEN 0
  ELSE CASE variant = "cake" -> 12
         [] variant = "mp" -> IF e.t.isCorrect THEN 20 ELSE 10
         [] OTHER -> 15

RECURSIVE ClaimedTotal(_)
ClaimedTotal(l) ==
  IF l = <<>> THEN 0 ELSE ClaimedBurst(Head(l)) + ClaimedTotal(Tail(l))

NewParticles ==
  {k \in 1..Len(particles') : particles'[k].life = FULL_LIFE - LifeStep(variant)}

NewAt(x, y) ==
  Cardinality({k \in NewParticles : particles'[k].x = x /\ particles'[k].y = y})

RECURSIVE ClaimedAt(_, _, _)
ClaimedAt(l, x, y) ==
  IF l = <<>> THEN 0
  ELSE (IF Head(l).t.x = x /\ Head(l).t.y = y THEN ClaimedBurst(Head(l)) ELSE 0)
         + ClaimedAt(Tail(l), x, y)

ConsumptionAddsFixedBurst ==
  [][Frame /\ ~(variant = "fa" /\ ~running) =>
       /\ Cardinality(NewParticles) = ClaimedTotal(log')
       /\ \A e \in Events(log') : NewAt(e.t.x, e.t.y) = ClaimedAt(log', e.t.x, e.t.y)]_vars

(* A correct word was eaten in the MediaPipe variant: twenty new particles  *)
(* where the treat was                                                      *)
TwentyParticlesForCorrectWord ==
  /\ scope = "particles"
  /\ variant = "mp"
  /\ \E e \in EatenIn(log) :
       /\ e.t.isCorrect
       /\ Cardinality({k \in 1..Len(particles) :
                         /\ particles[k].life = FULL_LIFE - 20
                         /\ particles[k].x = e.t.x
                         /\ particles[k].y = e.t.y}) = 20

(* C27: every particle is eventually removed: its life starts at 1 and goes *)
(* down by 0.02 (0.025 in the face-api variant) in every tick, and the tick *)
(* in which it reaches 0 or less removes it, so it is gone after at most 50 *)
(* (40) ticks; the store never keeps a particle with life at or below 0     *)
(* from one tick to the next. Either bursts keep being pushed for ever, or   *)
(* the store is empty again and again.                                      *)
ClaimedStep == IF variant = "fa" THEN 25 ELSE 20

ClaimedTicks == IF variant = "fa" THEN 40 ELSE 50

WithLife(ps, n) == Cardinality({k \in 1..Len(ps) : ps[k].life = n})

(* A frame that pushed particles *)
BurstStep == \E k \in 1..Len(particles') : particles'[k].life = 1000 - ClaimedStep

ParticlesFadeAndLeave ==
  /\ [](\A k \in 1..Len(particles) :
          /\ particles[k].life > 0
          /\ particles[k].life <= 1000 - ClaimedStep
          /\ particles[k].life >= 1000 - ClaimedTicks * ClaimedStep + ClaimedStep)
  /\ [][Frame /\ ~(variant = "fa" /\ ~running) =>
          \A n \in 1..(ClaimedTicks - 1) :
             WithLife(particles', n * ClaimedStep - ClaimedStep) =
               IF n = 1 THEN 0 ELSE WithLife(particles, n * ClaimedStep)]_vars
  /\ ([]<><<BurstStep>>_vars) \/ ([]<>(particles = <<>>))

(* A burst of the point variant has come and gone *)
BurstGone ==
  /\ scope = "fade"
  /\ variant = "cake"
  /\ score >= 100
  /\ particles = <<>>

(* C29: the game-state summary sent with an advice request of the point     *)
(* variant lists only the treats that are active when the request is        *)
(* dispatched: a treat deactivated in this tick and not yet evicted is not  *)
(* part of it.                                                              *)
Dispatched == Len(requests') = Len(requests) + 1

RECURSIVE ClaimedSummary(_)
ClaimedSummary(ts) ==
  IF ts = <<>> THEN <<>>
  ELSE (IF Head(ts).active
        THEN <<[type |-> Head(ts).type, points |-> Head(ts).points]>>
        ELSE <<>>) \o ClaimedSummary(Tail(ts))

SummaryListsOnlyActiveTreats ==
  [][(variant = "cake" /\ Dispatched) =>
       requests'[Len(requests')].summary = ClaimedSummary(treats')]_vars

(* C30: in the word variants every treat in the store has isCorrect = true  *)
(* exactly when its word is the word of the currently active target, also   *)
(* between a delayed advance and the re-registration of the frame callback. *)
FlagMatchesActiveTarget ==
  variant # "cake" =>
    \A t \in Stored(treats) : t.isCorrect <=> (t.word = QUIZ_LIST[currentQuiz + 1])

(* C31: in the point and MediaPipe word variants a treat whose active flag  *)
(* is false is never advanced, collision-tested or scored again, and the    *)
(* next pass of the treat loop evicts it: every inactive treat of the store *)
(* leaves in the next frame, as it was and with the score as it was, and an *)
(* inactive treat found after a frame was deactivated in that frame.        *)
Inactive(ts) == {k \in 1..Len(ts) : ~ts[k].active}

EvictedIn(l) == {k \in 1..Len(l) : l[k].res = "evicted"}

InactiveTreatLeftAloneAndEvicted ==
  [][(Frame /\ variant \in {"cake", "mp"}) =>
       /\ \A k \in Inactive(treats) :
            \E j \in EvictedIn(log') :
              /\ log'[j].t = treats[k]
              /\ log'[j].after = log'[j].before
       /\ Cardinality(EvictedIn(log')) = Cardinality(Inactive(treats))
       /\ \A k \in Inactive(treats') :
            \E e \in Events(log') :
              /\ e.res \in {"eaten", "missed"}
              /\ e.t.y = treats'[k].y
              /\ e.t.velocity = treats'[k].velocity
              /\ treats'[k].scored = (IF e.res = "eaten" THEN 1 ELSE 0)]_vars

(* An eaten treat of the point variant was evicted in a frame that moved    *)
(* another treat on                                                         *)
EvictedBesideMovingTreat ==
  /\ scope = "pass"
  /\ variant = "cake"
  /\ \E e \in Events(log) : e.res = "evicted" /\ e.t.scored = 1
  /\ \E t \in Stored(treats) : t.active /\ t.scored = 0

(* C32: in the face-api variant the stored mouth position and open flag     *)
(* always come from the most recently started detection among those that    *)
(* have completed: a detection started earlier never overwrites the result  *)
(* of one started later.                                                    *)
MouthFromLatestDetection ==
  [][detections'.applied >= detections.applied]_vars

(* C33: every advice dispatch that sets the AI-thinking flag is eventually  *)
(* followed by the flag being cleared, whether the service succeeds or      *)
(* fails: the flag is never left set forever.                               *)
ThinkingFlagEventuallyCleared == isAiThinking ~> ~isAiThinking

(* C34: the number of treats in the store is bounded in every reachable     *)
(* state: at most one treat is spawned per tick and every treat falls by at *)
(* least the minimum velocity per tick, so the store never holds more than  *)
(* ceil((viewport height + margin + start offset) / minimum velocity) + 1   *)
(* treats.                                                                  *)
ClaimedFall(v) == Height + Margin(v) + (0 - StartY(v))

ClaimedMost(v) == (ClaimedFall(v) + MinVelocity(v) - 1) \div MinVelocity(v) + 1

StoreBounded ==
  /\ Len(treats) <= ClaimedMost(variant)
  /\ \A t \in Stored(treats) : t.velocity >= MinVelocity(variant)

(* The store of the point variant holds as many treats as the bound allows, *)
(* the oldest one pruned in the last pass and not yet evicted               *)
StoreFull ==
  /\ scope = "store"
  /\ variant = "cake"
  /\ Len(treats) = ClaimedMost("cake")
  /\ ~treats[1].active

====
